---- MODULE Spec2Model ----
(***************************************************************************)
(* Model of table_related_benchmarks/run_tableqa_execution_eval.py: the    *)
(* bootstrap of the images directory, main's fan-out of                    *)
(* eval_outputs_parallel over the dataset with joblib.Parallel, the        *)
(* per-item pipeline (load tables, filter_code, timeout-guarded tool.run,  *)
(* exception handlers, execution_eval) and the pass-rate summary.          *)
(*                                                                         *)
(* Python str values are sequences of one-character strings, so that       *)
(* concatenation, case folding and the regular-expression search of        *)
(* execution_eval are computed and not assumed.                            *)
(***************************************************************************)
EXTENDS FiniteSets, Integers, Sequences, TLC

(***************************************************************************)
(* Bounds of the model.                                                    *)
(***************************************************************************)
\* Largest dataset drawn freely from Cases (the fixed ten-item batch of the
\* pass-rate scenario is drawn besides it).
MaxItems == 2
\* Worker slots of the pool (n_jobs); at most this many items are in flight.
NJobs == 2

(***************************************************************************)
(* String literals of the program.                                         *)
(***************************************************************************)
EMPTY_CODE_OBSERVE ==
    << "C", "o", "d", "e", " ", "E", "r", "r", "o", "r", ":", " ", "o", "u", "t", "p",
       "u", "t", " ", "e", "m", "p", "t", "y", " ", "c", "o", "d", "e", ".", "." >>
TIMEOUT_OBSERVE ==
    << "T", "i", "m", "e", "o", "u", "t", " ", "E", "r", "r", "o", "r", ":", " ", "c",
       "o", "d", "e", " ", "r", "u", "n", "n", "i", "n", "g", " ", "t", "i", "m", "e",
       " ", "e", "x", "c", "e", "e", "d", " ", "1", "5", "s", ".", "." >>
SYSTEMEXIT_PREFIX ==
    << "S", "y", "s", "t", "e", "m", "E", "x", "i", "t", " ", "E", "r", "r", "o", "r",
       ":", " " >>
UNEXPECTED_PREFIX ==
    << "U", "n", "e", "x", "p", "e", "c", "t", "e", "d", " ", "E", "r", "r", "o", "r",
       ":", " " >>
EXPLODE_MESSAGE ==
    << "d", "f", ".", "e", "x", "p", "l", "o", "d", "e", " ", "e", "r", "r", "o", "r" >>
PAT_ERROR ==
    << "e", "r", "r", "o", "r" >>
PAT_EXCEPTION ==
    << "e", "x", "c", "e", "p", "t", "i", "o", "n" >>
\* Tokens of a model completion: the fence that opens a code block, the fence
\* that closes one, the construct line 98 looks for.
FENCE_OPEN == "<fence python>"
FENCE_CLOSE == "<fence>"
EXPLODE_CALL == "df.explode(\"Candidate\")"

(***************************************************************************)
(* Characters.                                                             *)
(***************************************************************************)
UpperChars ==
    << "A", "B", "C", "D", "E", "F", "G", "H", "I", "J", "K", "L", "M", "N", "O", "P",
       "Q", "R", "S", "T", "U", "V", "W", "X", "Y", "Z" >>
LowerChars ==
    << "a", "b", "c", "d", "e", "f", "g", "h", "i", "j", "k", "l", "m", "n", "o", "p",
       "q", "r", "s", "t", "u", "v", "w", "x", "y", "z" >>
DigitChars ==
    << "0", "1", "2", "3", "4", "5", "6", "7", "8", "9" >>

OtherChars == { " ", ":", ".", "|", "-", "\n" }
Alphabet ==
    { UpperChars[k] : k \in 1..Len(UpperChars) }
    \cup { LowerChars[k] : k \in 1..Len(LowerChars) }
    \cup { DigitChars[k] : k \in 1..Len(DigitChars) }
    \cup OtherChars

\* re.IGNORECASE folds both the pattern and the text to one letter case.
FoldTable ==
    [c \in Alphabet |->
        IF \E k \in 1..Len(UpperChars) : UpperChars[k] = c
        THEN LowerChars[CHOOSE k \in 1..Len(UpperChars) : UpperChars[k] = c]
        ELSE c]
FoldCase(c) == FoldTable[c]

Min(a, b) == IF a <= b THEN a ELSE b

(***************************************************************************)
(* Python values: what tool.run may return and what observe may hold.      *)
(***************************************************************************)
Str(s) == [type |-> "str", s |-> s]
PyNone == [type |-> "NoneType"]
PyInt(n) == [type |-> "int", n |-> n]
\* A one-column DataFrame; rows is the sequence of its cells (each a str).
DataFrame(rows) == [type |-> "DataFrame", rows |-> rows]

\* str(n) of a non-negative int: its decimal digits.
RECURSIVE Decimal(_)
Decimal(n) ==
    IF n < 10 THEN << DigitChars[n + 1] >>
    ELSE Decimal(n \div 10) \o << DigitChars[(n % 10) + 1] >>

\* str(observe), line 109.
PyStr(v) ==
    CASE v.type = "str" -> v.s
      [] v.type = "int" -> Decimal(v.n)

\* DataFrame.head(): the leading rows, five by default.
HeadRows == 5
\* The rendering without head() (a plausible slip: the whole frame).
DfHeadAll(rows) == rows
DfHead(rows) == SubSeq(rows, 1, Min(Len(rows), HeadRows))

\* DataFrame.to_markdown(index=False): a header line, a rule, one line a row.
RECURSIVE MarkdownRows(_)
MarkdownRows(rows) ==
    IF rows = << >> THEN << >>
    ELSE << "\n", "|", " " >> \o rows[1] \o << " ", "|" >>
         \o MarkdownRows(Tail(rows))
ToMarkdown(rows) ==
    << "|", " ", "v", " ", "|", "\n", "|", ":", "-", "|" >> \o MarkdownRows(rows)

\* Lines 106-109: the rendering of the value tool.run returned.
RenderKeepsValue(v) ==
    IF v.type = "DataFrame" THEN Str(ToMarkdown(DfHead(v.rows)))
    ELSE v
Render(v) ==
    IF v.type = "DataFrame" THEN Str(ToMarkdown(DfHead(v.rows)))
    ELSE Str(PyStr(v))

(***************************************************************************)
(* execution_eval, lines 128-140.                                          *)
(***************************************************************************)
\* The pattern pat matches the text s at position p, letter case ignored.
MatchAt(s, p, pat) ==
    /\ p + Len(pat) - 1 <= Len(s)
    /\ \A k \in 1..Len(pat) : FoldCase(s[p + k - 1]) = FoldCase(pat[k])

\* pattern.search(observe) for r"error|exception" with re.IGNORECASE: some
\* position of the text at which one of the two alternatives matches.
PatternSearch(s) ==
    \E p \in 1..Len(s) : MatchAt(s, p, PAT_ERROR) \/ MatchAt(s, p, PAT_EXCEPTION)

\* The same search without re.IGNORECASE (a plausible slip of line 135).
MatchAtExact(s, p, pat) ==
    /\ p + Len(pat) - 1 <= Len(s)
    /\ \A k \in 1..Len(pat) : s[p + k - 1] = pat[k]
execution_eval_case_sensitive(observe) ==
    IF observe.type = "str"
    THEN ~ \E p \in 1..Len(observe.s) :
              MatchAtExact(observe.s, p, PAT_ERROR)
              \/ MatchAtExact(observe.s, p, PAT_EXCEPTION)
    ELSE TRUE

\* Line 137, pattern.search(observe): the search of a str; on a value that
\* is not a str (nor bytes-like) re raises TypeError.
SearchCall(observe) ==
    IF observe.type = "str"
    THEN [raised |-> FALSE, found |-> PatternSearch(observe.s)]
    ELSE [raised |-> TRUE, found |-> FALSE]

\* The function without its try/except (a plausible slip): the TypeError of
\* the search leaves it.
ExecutionEvalCallNoExcept(observe) ==
    IF SearchCall(observe).raised
    THEN [raised |-> TRUE, res |-> FALSE]
    ELSE [raised |-> FALSE, res |-> ~ SearchCall(observe).found]

\* Lines 136-140, a call of the function: res = not pattern.search(observe),
\* and the bare except of line 138 turns whatever the search raises into True.
ExecutionEvalCall(observe) ==
    IF SearchCall(observe).raised
    THEN [raised |-> FALSE, res |-> TRUE]
    ELSE [raised |-> FALSE, res |-> ~ SearchCall(observe).found]

\* The value the function returns.
execution_eval(observe) == ExecutionEvalCall(observe).res

(***************************************************************************)
(* filter_code (utils): the code of a completion.                          *)
(***************************************************************************)
\* Position of the first token of text at or after position from that equals
\* tok; 0 when there is none.
RECURSIVE FindToken(_, _, _)
FindToken(text, tok, from) ==
    IF from > Len(text) THEN 0
    ELSE IF text[from] = tok THEN from
    ELSE FindToken(text, tok, from + 1)

\* The first complete fenced block of the completion; the empty code when the
\* completion holds none.
filter_code(llm_output) ==
    LET open == FindToken(llm_output, FENCE_OPEN, 1)
        close == IF open = 0 THEN 0 ELSE FindToken(llm_output, FENCE_CLOSE, open + 1)
    IN  IF open = 0 \/ close = 0 THEN << >>
        ELSE SubSeq(llm_output, open + 1, close - 1)

\* The membership test of line 98: the code holds the explode call.
HasExplode(code) == \E k \in 1..Len(code) : code[k] = EXPLODE_CALL

(***************************************************************************)
(* Exceptions and the handlers of lines 110-115.                           *)
(***************************************************************************)
Exc(cls, msg) == [cls |-> cls, msg |-> msg]
NoExc == Exc("none", << >>)

\* The classes that derive from Exception.  SystemExit and KeyboardInterrupt
\* derive from BaseException only.
ExceptionClasses ==
    { "ValueError", "FileNotFoundError", "IndexError", "ZeroDivisionError",
      "TimeoutException" }

\* The handlers without the except SystemExit clause (a plausible slip).
HandleExceptionNoSystemExit(e) ==
    CASE e.cls = "TimeoutException" ->
            [caught |-> TRUE, observe |-> Str(TIMEOUT_OBSERVE)]
      [] e.cls \in ExceptionClasses \ { "TimeoutException" } ->
            [caught |-> TRUE, observe |-> Str(UNEXPECTED_PREFIX \o e.msg)]
      [] OTHER ->
            [caught |-> FALSE, observe |-> Str(<< >>)]

\* The handlers with the bare message as the observation of the last clause
\* (a plausible slip: the prefix left out).
HandleExceptionBareMessage(e) ==
    CASE e.cls = "TimeoutException" ->
            [caught |-> TRUE, observe |-> Str(TIMEOUT_OBSERVE)]
      [] e.cls = "SystemExit" ->
            [caught |-> TRUE, observe |-> Str(SYSTEMEXIT_PREFIX \o e.msg)]
      [] e.cls \in ExceptionClasses \ { "TimeoutException" } ->
            [caught |-> TRUE, observe |-> Str(e.msg)]
      [] OTHER ->
            [caught |-> FALSE, observe |-> Str(<< >>)]

\* The first except clause of lines 110-115 that takes e: its observation,
\* or the exception left to propagate out of eval_outputs_parallel.
HandleException(e) ==
    CASE e.cls = "TimeoutException" ->
            [caught |-> TRUE, observe |-> Str(TIMEOUT_OBSERVE)]
      [] e.cls = "SystemExit" ->
            [caught |-> TRUE, observe |-> Str(SYSTEMEXIT_PREFIX \o e.msg)]
      [] e.cls \in ExceptionClasses \ { "TimeoutException" } ->
            [caught |-> TRUE, observe |-> Str(UNEXPECTED_PREFIX \o e.msg)]
      [] OTHER ->
            [caught |-> FALSE, observe |-> Str(<< >>)]

(***************************************************************************)
(* Inputs: dataset records, completions, and what each item's code does    *)
(* when tool.run executes it against the item's tables.                    *)
(***************************************************************************)
MSG_BYE ==
    << "b", "y", "e" >>
MSG_FATAL ==
    << "f", "a", "t", "a", "l", " ", "e", "r", "r", "o", "r" >>
TXT_VALUEERROR ==
    << "V", "a", "l", "u", "e", "E", "r", "r", "o", "r", ":", " ", "b", "a", "d" >>
TXT_ABC ==
    << " ", " ", " ", "a", " ", " ", " ", "b", " ", " ", " ", "c" >>

\* Messages an exception of the executed code may carry.
Messages == { << >>, MSG_BYE, MSG_FATAL }

\* The table sources pd.read_csv can load; any other path makes it raise.
ReadableTables == { "t1.csv", "t2.csv" }
GOOD_PATHS == << "t1.csv", "t2.csv" >>
BAD_PATHS == << "t1.csv", "missing.csv" >>

\* Completions of the model.
OUT_NO_CODE == << "no code here" >>
OUT_CODE == << "prose", FENCE_OPEN, "stmt", FENCE_CLOSE, "prose" >>
OUT_OTHER_CODE == << FENCE_OPEN, "stmt", "stmt", FENCE_CLOSE >>
OUT_EXPLODE == << FENCE_OPEN, "stmt", EXPLODE_CALL, FENCE_CLOSE >>
OUT_UNCLOSED == << "prose", FENCE_OPEN, "stmt" >>

\* What the executed code does: return a value, raise, or never return.
\* slow: it takes longer than the deadline of line 101 to get there.
Returns(v) == [kind |-> "return", value |-> v, slow |-> FALSE]
SlowReturns(v) == [kind |-> "return", value |-> v, slow |-> TRUE]
Raises(cls, msg) == [kind |-> "raise", exc |-> Exc(cls, msg), slow |-> FALSE]
Hangs == [kind |-> "hang", slow |-> TRUE]

SMALL_FRAME == DataFrame(<< TXT_ABC, MSG_BYE >>)
LONG_FRAME ==
    DataFrame(<< MSG_BYE, MSG_BYE, MSG_BYE, MSG_BYE, MSG_BYE, TXT_VALUEERROR >>)

Case(paths, out, does) == [table_paths |-> paths, output_text |-> out, does |-> does]

\* The items a freely drawn dataset is made of.
Cases ==
    { Case(GOOD_PATHS, OUT_NO_CODE, Hangs),
      Case(GOOD_PATHS, OUT_UNCLOSED, Hangs),
      Case(BAD_PATHS, OUT_CODE, Returns(PyInt(3))),
      Case(GOOD_PATHS, OUT_EXPLODE, Returns(PyInt(3))),
      Case(GOOD_PATHS, OUT_OTHER_CODE, Returns(PyInt(12))),
      Case(GOOD_PATHS, OUT_CODE, Returns(Str(TXT_VALUEERROR))),
      Case(GOOD_PATHS, OUT_CODE, Returns(LONG_FRAME)),
      Case(GOOD_PATHS, OUT_CODE, SlowReturns(SMALL_FRAME)),
      Case(GOOD_PATHS, OUT_CODE, Raises("KeyboardInterrupt", << >>)),
      Case(GOOD_PATHS, OUT_CODE, Raises("ValueError", MSG_BYE)),
      Case(GOOD_PATHS, OUT_CODE, Hangs) }
    \cup { Case(GOOD_PATHS, OUT_CODE, Raises("SystemExit", m)) : m \in Messages }

\* The batch of the pass-rate scenario: ten items, one of which never
\* returns, one of which raises, the rest returning a value.
SCENARIO ==
    << Case(GOOD_PATHS, OUT_CODE, Returns(PyInt(3))),
       Case(GOOD_PATHS, OUT_CODE, Hangs),
       Case(GOOD_PATHS, OUT_CODE, Returns(PyInt(3))),
       Case(GOOD_PATHS, OUT_CODE, Returns(PyInt(3))),
       Case(GOOD_PATHS, OUT_CODE, Raises("ValueError", MSG_BYE)),
       Case(GOOD_PATHS, OUT_CODE, Returns(PyInt(3))),
       Case(GOOD_PATHS, OUT_CODE, Returns(PyInt(3))),
       Case(GOOD_PATHS, OUT_CODE, Returns(PyInt(3))),
       Case(GOOD_PATHS, OUT_CODE, Returns(PyInt(3))),
       Case(GOOD_PATHS, OUT_CODE, Returns(PyInt(3))) >>

\* A surplus completion, for a model_outputs longer than the dataset.
SURPLUS == [output_text |-> OUT_OTHER_CODE]

\* The datasets: every sequence of at most MaxItems cases, and the scenario.
Batches ==
    UNION { [1..n -> Cases] : n \in 0..MaxItems } \cup { SCENARIO }

\* The cases the directory states and the count mismatches are drawn with.
PlainCases ==
    { Case(GOOD_PATHS, OUT_NO_CODE, Hangs),
      Case(BAD_PATHS, OUT_CODE, Returns(PyInt(3))),
      Case(GOOD_PATHS, OUT_OTHER_CODE, Returns(PyInt(12))),
      Case(GOOD_PATHS, OUT_CODE, Hangs) }
PlainBatches == UNION { [1..n -> PlainCases] : n \in 0..MaxItems }

\* The texts of a dataset record: the placeholder the instruction names its
\* tables by, the table description put in its place, an instruction holding
\* the placeholder twice, one without it, and the message list of a slim
\* record.
TABLE_INFO == << "<", "t", ">" >>
DF_INFO_SIMPLE_STR == << "a", ":", "i", "n", "t" >>
INSTRUCTION_WITH_INFO == << "u", "s", "e", " ", "<", "t", ">", " ", "<", "t", ">" >>
INSTRUCTION_PLAIN == << "s", "u", "m" >>
MESSAGE ==
    [type |-> "list",
     items |-> << [role |-> "user", content |-> Str(<< "s", "l", "i", "m" >>)] >>]

\* str.replace(old, new): every occurrence of old, found from the left and
\* not overlapping, gives way to new; an empty old stands before every
\* character and at the end.
RECURSIVE Interleave(_, _, _)
Interleave(s, new, p) ==
    IF p > Len(s) THEN new ELSE new \o << s[p] >> \o Interleave(s, new, p + 1)
RECURSIVE ReplaceFrom(_, _, _, _)
ReplaceFrom(s, old, new, p) ==
    IF p > Len(s)
    THEN << >>
    ELSE IF MatchAtExact(s, p, old)
         THEN new \o ReplaceFrom(s, old, new, p + Len(old))
         ELSE << s[p] >> \o ReplaceFrom(s, old, new, p + 1)
Replace(s, old, new) ==
    IF Len(old) = 0 THEN Interleave(s, new, 1) ELSE ReplaceFrom(s, old, new, 1)

\* The dataset record of position i (its query names the position; the
\* records of odd positions name their tables by the placeholder).
TestData(batch) ==
    [i \in 1..Len(batch) |->
        [query |-> i,
         table_paths |-> batch[i].table_paths,
         instruction |-> Str(IF i % 2 = 1 THEN INSTRUCTION_WITH_INFO
                                          ELSE INSTRUCTION_PLAIN),
         table_info |-> Str(TABLE_INFO),
         df_info_simple_str |-> Str(DF_INFO_SIMPLE_STR),
         message |-> MESSAGE]]
ModelOutputs(batch) ==
    [i \in 1..Len(batch) |-> [output_text |-> batch[i].output_text]]

(***************************************************************************)
(* State.                                                                  *)
(***************************************************************************)
VARIABLES
    output_dir,      \* the images directory of lines 191-203
    dir_before,      \* the state the bootstrap found it in
    phase,           \* where main is
    crash,           \* the exception main died of, NoExc while it lives
    test_datas,      \* load_json(eval_dataset_path)
    model_outputs,   \* generate_outputs(...)
    does,            \* what each item's code does under tool.run
    dispatched,      \* number of items the generator of line 169 has yielded
    task,            \* per item: position in eval_outputs_parallel and locals
    first_done,      \* the item whose call ended first, 0 while none has
    eval_answers,    \* the list Parallel returns
    args,            \* the parsed command line: slim
    execute_passed,
    total_len,
    pass_rate,       \* round(execute_passed / total_len, 3), in thousandths
    saved,           \* content of eval_results_save_path
    probe,           \* the argument of a call of execution_eval on its own
    verdict          \* what that call came to

vars ==
    << output_dir, dir_before, phase, crash, test_datas, model_outputs, does,
       dispatched, task, first_done, eval_answers, execute_passed, total_len,
       pass_rate, saved, args, probe, verdict >>

Items == 1..Len(test_datas)

(***************************************************************************)
(* The images directory, lines 189-203.                                    *)
(***************************************************************************)
ABSENT == [exists |-> FALSE, writable |-> FALSE, mode |-> "none", files |-> "none"]
READ_ONLY == [exists |-> TRUE, writable |-> FALSE, mode |-> "0555", files |-> "old"]
WRITABLE == [exists |-> TRUE, writable |-> TRUE, mode |-> "0755", files |-> "old"]

\* os.makedirs(output_dir); os.chmod(output_dir, 0o777)
MakeDirs == [exists |-> TRUE, writable |-> TRUE, mode |-> "0777", files |-> "none"]

\* The bootstrap without its os.access branch (a plausible slip).
PrepareOutputDirNoAccessCheck(d) == IF d.exists THEN d ELSE MakeDirs

\* Lines 192-203: an existing directory is kept when os.access grants
\* writing and removed and made anew when not; a missing one is made.
PrepareOutputDir(d) ==
    IF d.exists
    THEN IF ~ d.writable THEN MakeDirs ELSE d
    ELSE MakeDirs

(***************************************************************************)
(* eval_outputs_parallel, lines 68-125.                                    *)
(***************************************************************************)
NoResult == [code |-> << >>, llm_output |-> << >>, observe |-> PyNone, flag |-> FALSE,
             query |-> 0, table_paths |-> << >>, instruction |-> PyNone]
IDLE_TASK ==
    [pc |-> "idle", llm_output |-> << >>, raw |-> PyNone, err |-> NoExc, runs |-> 0,
     res |-> NoResult]

\* Line 77: every path of the record is read; one unreadable source raises.
TablesLoad(test_data) ==
    \A k \in 1..Len(test_data.table_paths) : test_data.table_paths[k] \in ReadableTables

\* Lines 96-101 without the empty-code branch (a plausible slip).
PreFlightNoEmptyCheck(code) ==
    IF HasExplode(code)
    THEN [go |-> "raise", observe |-> PyNone, exc |-> Exc("ValueError", EXPLODE_MESSAGE)]
    ELSE [go |-> "run", observe |-> PyNone, exc |-> NoExc]

\* Lines 96-101 without the explode branch (a plausible slip).
PreFlightNoExplodeCheck(code) ==
    IF code = << >>
    THEN [go |-> "observe", observe |-> Str(EMPTY_CODE_OBSERVE), exc |-> NoExc]
    ELSE [go |-> "run", observe |-> PyNone, exc |-> NoExc]

\* Lines 96-101: what happens to the code before tool.run is reached.
PreFlight(code) ==
    CASE code = << >> ->
            [go |-> "observe", observe |-> Str(EMPTY_CODE_OBSERVE), exc |-> NoExc]
      [] code /= << >> /\ HasExplode(code) ->
            [go |-> "raise", observe |-> PyNone, exc |-> Exc("ValueError", EXPLODE_MESSAGE)]
      [] OTHER ->
            [go |-> "run", observe |-> PyNone, exc |-> NoExc]

\* Lines 79-88 with the instruction taken from the record as it is (a
\* plausible slip).
InstructionUnreplaced(test_data, slim) ==
    IF slim THEN test_data.message ELSE test_data.instruction

\* Lines 79-88: the instruction of the call: the message list of a slim
\* record, else the record's instruction with the table description in the
\* place of the placeholder.
Instruction(test_data, slim) ==
    IF slim
    THEN test_data.message
    ELSE Str(Replace(test_data.instruction.s, test_data.table_info.s,
                     test_data.df_info_simple_str.s))

\* Lines 117-125: the record the function returns.
eval_result_sample(code, llm_output, observe, test_data) ==
    [code |-> code,
     llm_output |-> llm_output,
     observe |-> observe,
     flag |-> execution_eval(observe),
     query |-> test_data.query,
     table_paths |-> test_data.table_paths,
     instruction |-> Instruction(test_data, args.slim)]

\* The return with a second attempt for a failed item (a plausible slip: a
\* retry loop around the call).
ReturnOrRetry(i, observe) ==
    IF ~ execution_eval(observe) /\ task[i].runs = 1
    THEN /\ task' = [task EXCEPT ![i].pc = "queued"]
         /\ UNCHANGED first_done
    ELSE /\ task' = [task EXCEPT
                       ![i].pc = "returned",
                       ![i].res = eval_result_sample(filter_code(task[i].llm_output),
                                                     task[i].llm_output, observe,
                                                     test_datas[i])]
         /\ first_done' = IF first_done = 0 THEN i ELSE first_done

\* The function returns: its record is the result of call i (raw keeps
\* what tool.run gave back, if it came back).
Return(i, observe) ==
    /\ task' = [task EXCEPT
                  ![i].pc = "returned",
                  ![i].res = eval_result_sample(filter_code(task[i].llm_output),
                                                task[i].llm_output, observe,
                                                test_datas[i])]
    /\ first_done' = IF first_done = 0 THEN i ELSE first_done

\* An exception leaves the function.
Propagate(i, e) ==
    /\ task' = [task EXCEPT ![i].pc = "raised", ![i].err = e, ![i].raw = PyNone]
    /\ first_done' = IF first_done = 0 THEN i ELSE first_done

\* An exception reaches the handlers of lines 110-115.
Handle(i, e) ==
    IF HandleException(e).caught
    THEN Return(i, HandleException(e).observe)
    ELSE Propagate(i, e)

\* Number of items a worker holds.
InFlight == Cardinality({ i \in Items : task[i].pc \in { "queued", "running", "rendering" } })

\* The generator of lines 169-170 pairs completion i with record i.
Argument(i) == model_outputs[i].output_text

(***************************************************************************)
(* Initial states: the directory as the bootstrap finds it, a dataset and  *)
(* the completions generated for it.  Every batch is drawn with a writable *)
(* directory and one completion a record; the other directory states and   *)
(* the completion lists one short or one long are drawn with the batches   *)
(* of plain cases.                                                         *)
(***************************************************************************)
\* The completions of a batch with the last one missing.
OneShort(batch) == SubSeq(ModelOutputs(batch), 1, Len(batch) - 1)
\* The completions of a batch and one more.
OneLong(batch) == Append(ModelOutputs(batch), SURPLUS)

InitInputs(batch, outputs, dir, slim) ==
    /\ args = [slim |-> slim]
    /\ output_dir = dir
    /\ dir_before = dir
    /\ test_datas = TestData(batch)
    /\ does = [i \in 1..Len(batch) |-> batch[i].does]
    /\ model_outputs = outputs
    /\ task = [i \in 1..Len(batch) |-> IDLE_TASK]

NOT_CALLED == [called |-> FALSE, raised |-> FALSE, res |-> FALSE]

Init ==
    /\ \/ \E batch \in Batches :
             InitInputs(batch, ModelOutputs(batch), WRITABLE, FALSE)
       \/ \E batch \in PlainBatches :
             InitInputs(batch, ModelOutputs(batch), WRITABLE, TRUE)
       \/ \E batch \in PlainBatches, dir \in { ABSENT, READ_ONLY } :
             InitInputs(batch, ModelOutputs(batch), dir, FALSE)
       \/ \E batch \in PlainBatches :
             InitInputs(batch, OneLong(batch), WRITABLE, FALSE)
       \/ \E batch \in PlainBatches :
             /\ Len(batch) > 0
             /\ InitInputs(batch, OneShort(batch), WRITABLE, FALSE)
    /\ phase = "boot"
    /\ crash = NoExc
    /\ dispatched = 0
    /\ first_done = 0
    /\ eval_answers = << >>
    /\ execute_passed = -1
    /\ total_len = -1
    /\ pass_rate = -1
    /\ saved = [written |-> FALSE, content |-> << >>]
    /\ probe = PyNone
    /\ verdict = NOT_CALLED

(***************************************************************************)
(* Actions.                                                                *)
(***************************************************************************)
\* Lines 189-203, then main up to the Parallel call of line 168.
Bootstrap ==
    /\ phase = "boot"
    /\ output_dir' = PrepareOutputDir(output_dir)
    /\ phase' = "eval"
    /\ UNCHANGED << args, probe, verdict, first_done, dir_before, crash, test_datas, model_outputs, does, dispatched,
                    task, eval_answers, execute_passed, total_len,
                    pass_rate, saved >>

\* Lines 169-170: the generator yields the next call while a worker is free.
Dispatch ==
    /\ phase = "eval"
    /\ dispatched < Len(test_datas)
    /\ dispatched + 1 <= Len(model_outputs)
    /\ InFlight < NJobs
    /\ dispatched' = dispatched + 1
    /\ task' = [task EXCEPT ![dispatched + 1].pc = "queued",
                            ![dispatched + 1].llm_output = Argument(dispatched + 1)]
    /\ UNCHANGED << args, probe, verdict, first_done, output_dir, dir_before, phase, crash, test_datas, model_outputs,
                    does, eval_answers, execute_passed, total_len,
                    pass_rate, saved >>

\* Line 169: model_outputs[i] with i past its end raises IndexError in main.
DispatchIndexError ==
    /\ phase = "eval"
    /\ dispatched < Len(test_datas)
    /\ dispatched + 1 > Len(model_outputs)
    /\ InFlight < NJobs
    /\ phase' = "crashed"
    /\ crash' = Exc("IndexError", << >>)
    /\ UNCHANGED << args, probe, verdict, first_done, output_dir, dir_before, test_datas, model_outputs, does,
                    dispatched, task, eval_answers, execute_passed,
                    total_len, pass_rate, saved >>

\* Lines 73-101: load the tables, extract the code, and either finish
\* without running it or enter the timeout block and start tool.run.
Begin(i) ==
    /\ phase = "eval"
    /\ task[i].pc = "queued"
    /\ LET code == filter_code(task[i].llm_output)
       IN  IF ~ TablesLoad(test_datas[i])
           THEN Propagate(i, Exc("FileNotFoundError", << >>))
           ELSE CASE PreFlight(code).go = "observe" -> Return(i, PreFlight(code).observe)
                  [] PreFlight(code).go = "raise" -> Handle(i, PreFlight(code).exc)
                  [] OTHER ->
                        /\ task' = [task EXCEPT ![i].pc = "running",
                                                ![i].runs = task[i].runs + 1]
                        /\ UNCHANGED first_done
    /\ UNCHANGED << args, probe, verdict, output_dir, dir_before, phase, crash, test_datas, model_outputs,
                    does, dispatched, eval_answers, execute_passed, total_len,
                    pass_rate, saved >>

\* Line 104: tool.run comes back, with a value or with an exception.
RunEnds(i) ==
    /\ phase = "eval"
    /\ task[i].pc = "running"
    /\ does[i].kind /= "hang"
    /\ IF does[i].kind = "return"
       THEN /\ task' = [task EXCEPT ![i].pc = "rendering", ![i].raw = does[i].value]
            /\ UNCHANGED first_done
       ELSE Handle(i, does[i].exc)
    /\ UNCHANGED << args, probe, verdict, output_dir, dir_before, phase, crash, test_datas, model_outputs,
                    does, dispatched, eval_answers, execute_passed, total_len,
                    pass_rate, saved >>

\* Lines 106-109 and 117-125: the value is rendered and the record returned.
RenderValue(i) ==
    /\ phase = "eval"
    /\ task[i].pc = "rendering"
    /\ Return(i, Render(task[i].raw))
    /\ UNCHANGED << args, probe, verdict, output_dir, dir_before, phase, crash, test_datas, model_outputs,
                    does, dispatched, eval_answers, execute_passed, total_len,
                    pass_rate, saved >>

\* Line 101: the deadline passes while the block is still running (in
\* tool.run or in the rendering); TimeoutException is raised in it.
Deadline(i) ==
    /\ phase = "eval"
    /\ task[i].pc \in { "running", "rendering" }
    /\ does[i].slow
    /\ Handle(i, Exc("TimeoutException", << >>))
    /\ UNCHANGED << args, probe, verdict, output_dir, dir_before, phase, crash, test_datas, model_outputs,
                    does, dispatched, eval_answers, execute_passed, total_len,
                    pass_rate, saved >>

\* Line 168: an exception that left a call is raised again by Parallel.
ParallelRaises ==
    /\ phase = "eval"
    /\ \E i \in Items :
          /\ task[i].pc = "raised"
          /\ crash' = task[i].err
    /\ phase' = "crashed"
    /\ UNCHANGED << args, probe, verdict, first_done, output_dir, dir_before, test_datas, model_outputs, does,
                    dispatched, task, eval_answers, execute_passed,
                    total_len, pass_rate, saved >>

\* The records in reverse order of the calls (a plausible slip).
InReverseOrder(tasks) ==
    [i \in 1..Len(tasks) |-> tasks[Len(tasks) + 1 - i].res]

\* Parallel returns the records in the order of the calls.
InCallOrder(tasks) == [i \in 1..Len(tasks) |-> tasks[i].res]

\* Line 168: every call has returned; Parallel hands back the list.
Gather ==
    /\ phase = "eval"
    /\ dispatched = Len(test_datas)
    /\ \A i \in Items : task[i].pc = "returned"
    /\ eval_answers' = InCallOrder(task)
    /\ phase' = "summary"
    /\ UNCHANGED << args, probe, verdict, first_done, output_dir, dir_before, crash, test_datas, model_outputs, does,
                    dispatched, task, execute_passed, total_len,
                    pass_rate, saved >>

\* Lines 176-177 with the last record left out (a plausible off-by-one).
RECURSIVE CountPassedButLast(_)
CountPassedButLast(answers) ==
    IF Len(answers) <= 1 THEN 0
    ELSE (IF answers[1].flag THEN 1 ELSE 0) + CountPassedButLast(Tail(answers))

\* Lines 174-177: execute_passed += int(eval_answer["flag"]) over the list.
RECURSIVE CountPassed(_)
CountPassed(answers) ==
    IF answers = << >> THEN 0
    ELSE (IF answers[1].flag THEN 1 ELSE 0) + CountPassed(Tail(answers))

\* round(passed / total, 3) in thousandths, ties going to the even one.
Round3(passed, total) ==
    LET q == (1000 * passed) \div total
        r == (1000 * passed) % total
    IN  IF 2 * r > total \/ (2 * r = total /\ q % 2 = 1) THEN q + 1 ELSE q

\* The rate with a guard for the empty list (a plausible slip: 0 reported
\* in place of the division).
PassRateGuarded(passed, total) ==
    IF total = 0
    THEN [raised |-> FALSE, value |-> 0]
    ELSE [raised |-> FALSE, value |-> Round3(passed, total)]

\* Line 181: round(execute_passed / total_len, 3); the division raises
\* ZeroDivisionError on a total of 0.
PassRate(passed, total) ==
    IF total = 0
    THEN [raised |-> TRUE, value |-> -1]
    ELSE [raised |-> FALSE, value |-> Round3(passed, total)]

\* Lines 173-182: the counts, then the rate; the division raises on 0.
Summarize ==
    /\ phase = "summary"
    /\ execute_passed' = CountPassed(eval_answers)
    /\ total_len' = Len(eval_answers)
    /\ IF PassRate(CountPassed(eval_answers), Len(eval_answers)).raised
       THEN /\ phase' = "crashed"
            /\ crash' = Exc("ZeroDivisionError", << >>)
            /\ UNCHANGED pass_rate
       ELSE /\ phase' = "save"
            /\ pass_rate' = PassRate(CountPassed(eval_answers), Len(eval_answers)).value
            /\ UNCHANGED crash
    /\ UNCHANGED << args, probe, verdict, first_done, output_dir, dir_before, test_datas, model_outputs, does,
                    dispatched, task, eval_answers, saved >>

\* Lines 185-186: json.dump(eval_answers, f).
Save ==
    /\ phase = "save"
    /\ saved' = [written |-> TRUE, content |-> eval_answers]
    /\ phase' = "done"
    /\ UNCHANGED << args, probe, verdict, first_done, output_dir, dir_before, crash, test_datas, model_outputs, does,
                    dispatched, task, eval_answers, execute_passed,
                    total_len, pass_rate >>

Next ==
    \/ Bootstrap
    \/ Dispatch
    \/ DispatchIndexError
    \/ \E i \in Items : Begin(i)
    \/ \E i \in Items : RunEnds(i)
    \/ \E i \in Items : RenderValue(i)
    \/ \E i \in Items : Deadline(i)
    \/ ParallelRaises
    \/ Gather
    \/ Summarize
    \/ Save

Spec == Init /\ [][Next]_vars

(***************************************************************************)
(* execution_eval on its own: the function is called once with an          *)
(* argument drawn from texts and from values that are no text; the         *)
(* pipeline stands still.                                                  *)
(***************************************************************************)
\* Longest generated text.
MaxProbeLen == 5
ProbeChars == { "e", "r", "o", "R" }
ProbeTexts == UNION { [1..n -> ProbeChars] : n \in 0..MaxProbeLen }

\* Arguments of the call: texts, and values of other types.
Probes ==
    { Str(s) : s \in ProbeTexts }
    \cup { Str(TXT_ABC), Str(TXT_VALUEERROR), Str(PAT_EXCEPTION), Str(TIMEOUT_OBSERVE) }
    \cup { PyNone, PyInt(0), PyInt(12), SMALL_FRAME, LONG_FRAME }

ClassifierInit ==
    /\ InitInputs(<< >>, << >>, WRITABLE, FALSE)
    /\ phase = "boot"
    /\ crash = NoExc
    /\ dispatched = 0
    /\ first_done = 0
    /\ eval_answers = << >>
    /\ execute_passed = -1
    /\ total_len = -1
    /\ pass_rate = -1
    /\ saved = [written |-> FALSE, content |-> << >>]
    /\ probe \in Probes
    /\ verdict = NOT_CALLED

\* execution_eval(probe) is called.
Classify ==
    /\ ~ verdict.called
    /\ verdict' = [called |-> TRUE,
                   raised |-> ExecutionEvalCall(probe).raised,
                   res |-> ExecutionEvalCall(probe).res]
    /\ UNCHANGED << args, probe, output_dir, dir_before, phase, crash, test_datas,
                    model_outputs, does, dispatched, task, first_done, eval_answers,
                    execute_passed, total_len, pass_rate, saved >>

ClassifierNext == Classify

ClassifierSpec == ClassifierInit /\ [][ClassifierNext]_vars

(***************************************************************************)
(* Vocabulary of the properties.                                           *)
(***************************************************************************)
\* Parallel has handed back its list (line 171 is passed).
Evaluated ==
    \/ phase \in { "summary", "save", "done" }
    \/ phase = "crashed" /\ crash.cls = "ZeroDivisionError"

\* The call of item i has ended, with a record or with an exception.
Ended(i) == task[i].pc \in { "returned", "raised" }

\* tool.run was started for item i.
Executed(i) == task[i].runs > 0

\* The text s with every letter in lower case.
Lowered(s) == [k \in 1..Len(s) |-> FoldTable[s[k]]]

\* The word w (in lower case) occurs in s, in any letter case.
Occurs(w, s) ==
    LET low == Lowered(s)
    IN  \E from \in 0..(Len(s) - Len(w)) : SubSeq(low, from + 1, from + Len(w)) = w

HasErrorText(s) == Occurs(PAT_ERROR, s) \/ Occurs(PAT_EXCEPTION, s)

\* The text s begins with the text prefix.
StartsWith(s, prefix) ==
    Len(s) >= Len(prefix) /\ SubSeq(s, 1, Len(prefix)) = prefix

\* C1: for n items paired with n completions, once the evaluation is over the
\* list of results has n entries and entry i was made from item i and
\* completion i (its llm_output is completion i, its query is the query of
\* item i), in whatever order the calls ended and however each item fared.
C1_OneResultPerItemInOrder ==
    (Evaluated /\ Len(model_outputs) = Len(test_datas)) =>
        /\ Len(eval_answers) = Len(test_datas)
        /\ \A i \in Items :
              /\ eval_answers[i].llm_output = model_outputs[i].output_text
              /\ eval_answers[i].query = test_datas[i].query

\* Two items with different completions, the second call ended first, one of
\* the items failed, and the list is back.
C1_Witness ==
    /\ Evaluated
    /\ Len(test_datas) = 2
    /\ Len(model_outputs) = 2
    /\ model_outputs[1] /= model_outputs[2]
    /\ first_done = 2
    /\ ~ eval_answers[1].flag
    /\ eval_answers[2].flag

\* C2: the failure of one item never ends the batch: when a table source of
\* an item cannot be loaded the error is not raised out of the call, it
\* becomes the record of that item with flag false, and the batch goes on.
C2_LoadFailureBecomesResult ==
    /\ crash.cls /= "FileNotFoundError"
    /\ \A i \in Items :
          (Ended(i) /\ ~ TablesLoad(test_datas[i])) =>
              /\ task[i].pc = "returned"
              /\ ~ task[i].res.flag

\* C3: when the number of completions differs from the number of items the
\* batch fails at once with a ConfigurationError: no item is evaluated, no
\* summary is made, nothing is saved.
C3_CountMismatchIsFatal ==
    Len(model_outputs) /= Len(test_datas) =>
        /\ dispatched = 0
        /\ phase \notin { "summary", "save", "done" }
        /\ phase = "crashed" => crash.cls = "ConfigurationError"

\* C4: an item whose code reaches execution and does not finish within the
\* deadline is recorded with the timeout observation and flag false, and so
\* every such item yields a record and the batch completes whatever the
\* executed code does: no call that ran code ends without a record, and
\* main does not die of what the code raised.
C4_EveryExecutedItemYieldsResult ==
    /\ \A i \in Items :
          Executed(i) =>
              /\ task[i].pc /= "raised"
              /\ (task[i].pc = "returned" /\ does[i].kind = "hang") =>
                    /\ task[i].res.observe = Str(TIMEOUT_OBSERVE)
                    /\ ~ task[i].res.flag
    /\ crash.cls \in { "none", "IndexError", "ZeroDivisionError", "FileNotFoundError" }

\* C5: when the executed code calls for the process to exit with message m,
\* the process does not exit: the call returns a record whose observe is
\* SystemExit Error: followed by m and whose flag is false, for every m (the
\* empty one and one without error text among them), and SystemExit never
\* ends the batch.
C5_SystemExitContained ==
    /\ crash.cls /= "SystemExit"
    /\ \A i \in Items :
          (Ended(i) /\ Executed(i) /\ does[i].kind = "raise"
                /\ does[i].exc.cls = "SystemExit") =>
              /\ task[i].pc = "returned"
              /\ task[i].res.observe = Str(SYSTEMEXIT_PREFIX \o does[i].exc.msg)
              /\ ~ task[i].res.flag

\* The first item asked for the exit with a message that holds no error
\* text, it has its record, and the item after it was processed after that.
C5_Witness ==
    /\ Len(test_datas) = 2
    /\ does[1] = Raises("SystemExit", MSG_BYE)
    /\ first_done = 1
    /\ task[1].pc = "returned"
    /\ task[1].res.observe = Str(SYSTEMEXIT_PREFIX \o MSG_BYE)
    /\ task[2].pc = "returned"
    /\ task[2].res.flag

\* C6: no exception raised by the executed code leaves the call: every one
\* that is neither the timeout nor an exit, of whatever class, becomes a
\* record whose observe is Unexpected Error: followed by its message, with
\* flag false.
C6_NoExceptionEscapes ==
    \A i \in Items :
        (Ended(i) /\ Executed(i) /\ does[i].kind = "raise"
              /\ does[i].exc.cls \notin { "SystemExit", "TimeoutException" }) =>
            /\ task[i].pc = "returned"
            /\ task[i].res.observe = Str(UNEXPECTED_PREFIX \o does[i].exc.msg)
            /\ ~ task[i].res.flag

\* C7: for an item whose extracted code is empty, tool.run is never started
\* and the record has observe exactly Code Error: output empty code.. and
\* flag false.
C7_EmptyCodeShortCircuits ==
    \A i \in Items :
        (task[i].pc /= "idle" /\ filter_code(task[i].llm_output) = << >>) =>
            /\ ~ Executed(i)
            /\ task[i].pc \notin { "running", "rendering" }
            /\ task[i].pc = "returned" =>
                  /\ task[i].res.observe = Str(EMPTY_CODE_OBSERVE)
                  /\ ~ task[i].res.flag
                  /\ task[i].res.code = << >>

\* An item whose completion holds no code has its record.
C7_Witness ==
    \E i \in Items :
        /\ task[i].llm_output = OUT_NO_CODE
        /\ task[i].pc = "returned"
        /\ ~ task[i].res.flag

\* Observation texts the classifier is tried on besides those of the runs.
SampleObservations ==
    { << >>, TXT_ABC, TXT_VALUEERROR, MSG_BYE, PAT_ERROR, PAT_EXCEPTION,
      << "E", "R", "R", "O", "R" >>,
      << "a", "n", " ", "E", "x", "C", "e", "P", "t", "I", "o", "N", "." >>,
      << "e", "r", "r", "o" >>,
      << "e", "x", "c", "e", "p", "t" >>,
      << "e", "r", "r", " ", "o", "r" >>,
      EMPTY_CODE_OBSERVE, TIMEOUT_OBSERVE }

\* The classifier against the substring test, on the sample texts.
ClassifierOnSamples ==
    \A s \in SampleObservations : execution_eval(Str(s)) = ~ HasErrorText(s)

\* C8: the classifier returns true for a text exactly when the text holds
\* neither error nor exception in any letter case, and the flag of every
\* record is the classifier applied to its observe (a run that returned a
\* value whose text holds such a word is flagged as failed).
C8_FlagIsClassifierOfObserve ==
    /\ ClassifierOnSamples
    /\ \A i \in Items :
          task[i].pc = "returned" =>
              /\ task[i].res.observe.type = "str"
              /\ task[i].res.flag = ~ HasErrorText(task[i].res.observe.s)
    /\ \A k \in 1..Len(eval_answers) :
          eval_answers[k].flag = ~ HasErrorText(eval_answers[k].observe.s)

\* A run returned the text ValueError: bad as its value and is flagged as
\* failed, next to a run that timed out.
C8_Witness ==
    \E i, j \in Items :
        /\ does[i] = Returns(Str(TXT_VALUEERROR))
        /\ task[i].pc = "returned"
        /\ task[i].res.observe = Str(TXT_VALUEERROR)
        /\ ~ task[i].res.flag
        /\ task[j].pc = "returned"
        /\ task[j].res.flag

\* Number of records of the list with the given property.
NumberOf(answers, P(_)) == Cardinality({ k \in 1..Len(answers) : P(answers[k]) })
IsPassed(r) == r.flag
IsTimeout(r) == r.observe = Str(TIMEOUT_OBSERVE)
IsUnexpected(r) == StartsWith(r.observe.s, UNEXPECTED_PREFIX)
IsCleanValue(r) ==
    ~ IsTimeout(r) /\ ~ IsUnexpected(r) /\ ~ HasErrorText(r.observe.s)

\* C9: after all items completed, the total is the number of items, the
\* passed count is the number of records with flag true (between 0 and the
\* total) and the rate is passed/total to the three decimals reported; in a
\* batch of 10 items of which one timed out, one raised and eight returned
\* a value without error text, passed is 8 and the rate 0.8.
C9_SummaryCountsFlags ==
    /\ (phase \in { "save", "done" } \/ (phase = "crashed" /\ crash.cls = "ZeroDivisionError")) =>
          /\ total_len = Len(test_datas)
          /\ execute_passed = NumberOf(eval_answers, IsPassed)
          /\ 0 <= execute_passed /\ execute_passed <= total_len
    /\ phase \in { "save", "done" } =>
          /\ 2 * (1000 * execute_passed - pass_rate * total_len) <= total_len
          /\ 2 * (pass_rate * total_len - 1000 * execute_passed) <= total_len
          /\ (/\ total_len = 10
              /\ NumberOf(eval_answers, IsTimeout) = 1
              /\ NumberOf(eval_answers, IsUnexpected) = 1
              /\ NumberOf(eval_answers, IsCleanValue) = 8) =>
                 /\ execute_passed = 8
                 /\ pass_rate = 800

\* The batch of ten with one timeout and one raise has been summarised.
C9_Witness ==
    /\ phase = "done"
    /\ total_len = 10
    /\ NumberOf(eval_answers, IsTimeout) = 1
    /\ NumberOf(eval_answers, IsUnexpected) = 1
    /\ NumberOf(eval_answers, IsCleanValue) = 8
    /\ execute_passed = 8
    /\ pass_rate = 800

\* C10: before any item executes the images directory exists and can be
\* written, from each starting state: a missing one is made with open
\* permissions, one that cannot be written is removed and made anew with
\* open permissions, one that can be written is kept as it is.
C10_OutputDirReady ==
    (phase /= "boot" \/ \E i \in Items : task[i].pc /= "idle") =>
        /\ phase /= "boot"
        /\ output_dir.exists /\ output_dir.writable
        /\ dir_before = ABSENT => output_dir = MakeDirs
        /\ dir_before = READ_ONLY =>
              output_dir = MakeDirs /\ output_dir.files = "none" /\ output_dir.mode = "0777"
        /\ dir_before = WRITABLE => output_dir = WRITABLE

\* The directory could not be written at the start and an item is executing.
C10_Witness ==
    /\ dir_before = READ_ONLY
    /\ output_dir.writable
    /\ \E i \in Items : task[i].pc = "running"

\* Number of places of the text s that hold the character c.
CountChar(s, c) == Cardinality({ k \in 1..Len(s) : s[k] = c })

\* Number of row lines of a rendered frame: its lines but the header and rule.
RenderedRows(s) == CountChar(s, "\n") - 1

\* The run of item i returned a value and the deadline did not pass.
ReturnedValue(i) ==
    /\ task[i].pc = "returned"
    /\ Executed(i)
    /\ does[i].kind = "return"
    /\ task[i].res.observe /= Str(TIMEOUT_OBSERVE)

\* C11: when the run returns a frame of any number of rows, the observation
\* renders the first 5 rows only (all of them when there are fewer): the
\* number of rendered rows does not grow with the frame, and a row past the
\* fifth leaves no trace in the observation.
C11_FramePreviewBounded ==
    \A i \in Items :
        (ReturnedValue(i) /\ does[i].value.type = "DataFrame") =>
            LET rows == does[i].value.rows
                text == task[i].res.observe.s
            IN  /\ RenderedRows(text) <= 5
                /\ RenderedRows(text) = (IF Len(rows) < 5 THEN Len(rows) ELSE 5)
                /\ \A k \in 1..Len(rows) :
                      k <= 5 => \E from \in 0..Len(text) :
                                    SubSeq(text, from + 1, from + Len(rows[k])) = rows[k]
                /\ (does[i].value = LONG_FRAME) => task[i].res.flag

\* The frame of six rows, whose sixth holds error text, was returned and
\* rendered: five rows, flag true.
C11_Witness ==
    \E i \in Items :
        /\ ReturnedValue(i)
        /\ does[i].value = LONG_FRAME
        /\ RenderedRows(task[i].res.observe.s) = 5
        /\ task[i].res.flag

\* C12: a snippet that holds the explode call is rejected before execution:
\* tool.run is never started for it, and its record has flag false and an
\* observe that names the rejection by its own error, df.explode error.
C12_ExplodeRejectedBeforeRun ==
    \A i \in Items :
        (task[i].pc /= "idle" /\ HasExplode(filter_code(task[i].llm_output))) =>
            /\ ~ Executed(i)
            /\ task[i].pc \in { "queued", "returned", "raised" }
            /\ task[i].pc = "raised" => ~ TablesLoad(test_datas[i])
            /\ task[i].pc = "returned" =>
                  /\ ~ task[i].res.flag
                  /\ task[i].res.observe = Str(UNEXPECTED_PREFIX \o EXPLODE_MESSAGE)
                  /\ Occurs(EXPLODE_MESSAGE, task[i].res.observe.s)

\* An item whose code holds the explode call has its record.
C12_Witness ==
    \E i \in Items :
        /\ task[i].llm_output = OUT_EXPLODE
        /\ task[i].pc = "returned"
        /\ ~ Executed(i)
        /\ ~ task[i].res.flag

\* C13: the classifier never raises, whatever it is given: when the pattern
\* matching itself fails, as on an observation that is no text, the call
\* returns true and the error does not leave it.
C13_ClassifierNeverRaises ==
    verdict.called =>
        /\ ~ verdict.raised
        /\ probe.type /= "str" => verdict.res
        /\ probe.type = "str" => (verdict.res = ~ HasErrorText(probe.s))

\* The classifier was called with a frame and answered true.
C13_Witness ==
    /\ verdict.called
    /\ probe = LONG_FRAME
    /\ verdict.res
    /\ ~ verdict.raised

\* The code of item i timed out or failed: it did not return a value.
RunFailed(i) == Executed(i) /\ does[i].kind \in { "hang", "raise" }

\* C14: nothing is retried: tool.run is started at most once for an item, a
\* call that has ended is never taken up again, and an item that timed out
\* or failed is recorded as failed once: its one record has flag false and
\* is the one record of its position in the list Parallel returns.
C14_NoRetries ==
    [][\A i \in Items :
          /\ task'[i].runs <= 1
          /\ Ended(i) => task'[i] = task[i]
          /\ (task'[i].pc = "returned" /\ RunFailed(i)) => ~ task'[i].res.flag
          /\ (phase' \in { "summary", "save", "done" }) =>
                /\ Len(eval_answers') = Len(test_datas)
                /\ eval_answers'[i] = task'[i].res
                /\ Cardinality({ k \in 1..Len(eval_answers') :
                                    eval_answers'[k].query = test_datas[i].query }) = 1
      ]_vars

\* An item timed out after one start of its code, and the saved list holds
\* its one record, with flag false.
C14_Witness ==
    /\ phase = "done"
    /\ \E i \in Items :
          /\ does[i].kind = "hang"
          /\ task[i].runs = 1
          /\ task[i].res.observe = Str(TIMEOUT_OBSERVE)
          /\ ~ saved.content[i].flag
          /\ Cardinality({ k \in 1..Len(saved.content) :
                              saved.content[k].query = test_datas[i].query }) = 1

\* The places of s where old stands.
Occurrences(s, old) == { p \in 1..Len(s) : MatchAtExact(s, p, old) }

\* r is s with new in the place of every old, said place by place, for
\* occurrences that do not overlap: a character outside every occurrence
\* is moved by the growth of the occurrences before it, and new stands
\* where each occurrence stood.
IsReplaced(r, s, old, new) ==
    LET occ == Occurrences(s, old)
        grow == Len(new) - Len(old)
        Shift(q) == Cardinality({ p \in occ : p < q }) * grow
        Covered(q) == \E p \in occ : p <= q /\ q < p + Len(old)
    IN  /\ Len(r) = Len(s) + Cardinality(occ) * grow
        /\ \A q \in 1..Len(s) : ~ Covered(q) => r[q + Shift(q)] = s[q]
        /\ \A p \in occ : \A k \in 1..Len(new) : r[p + Shift(p) + k - 1] = new[k]

\* C15 as stated: every result carries the query, the table_paths and the
\* instruction of its dataset record unchanged, and no step changes a
\* record.
C15_CarriesOriginalInstruction ==
    [][/\ test_datas' = test_datas
       /\ \A i \in Items :
             task'[i].pc = "returned" =>
                /\ task'[i].res.query = test_datas[i].query
                /\ task'[i].res.table_paths = test_datas[i].table_paths
                /\ task'[i].res.instruction = test_datas[i].instruction
      ]_vars

\* C15: every result carries the query and the table_paths of its dataset
\* record unchanged; its instruction is the record's message under slim,
\* and else the record's instruction with df_info_simple_str in the place
\* of every table_info; no step changes a dataset record.  (Said of every
\* step: no record is changed, and a result is either the one that was
\* there before the step or one that carries these fields.)
C15_CarriesItemFields ==
    [][/\ test_datas' = test_datas
       /\ \A i \in Items :
             (task'[i].pc = "returned" /\ task'[i] /= task[i]) =>
                /\ task'[i].res.query = test_datas[i].query
                /\ task'[i].res.table_paths = test_datas[i].table_paths
                /\ args.slim => task'[i].res.instruction = test_datas[i].message
                /\ ~ args.slim =>
                      /\ task'[i].res.instruction.type = "str"
                      /\ IsReplaced(task'[i].res.instruction.s,
                                    test_datas[i].instruction.s,
                                    test_datas[i].table_info.s,
                                    test_datas[i].df_info_simple_str.s)
      ]_vars

\* A result of a record whose instruction holds the placeholder carries
\* another instruction than the record, and the record is as it was loaded.
C15_Witness ==
    \E i \in Items :
       /\ task[i].pc = "returned"
       /\ ~ args.slim
       /\ Occurrences(test_datas[i].instruction.s, test_datas[i].table_info.s) /= { }
       /\ task[i].res.instruction /= test_datas[i].instruction
       /\ task[i].res.query = test_datas[i].query
       /\ test_datas[i].instruction = Str(INSTRUCTION_WITH_INFO)

\* The record of item i is there.
Recorded(i) == task[i].pc = "returned"

\* The ways an item comes to its record other than by a value returned in
\* time: no code, the rejected call, the deadline, a raise under tool.run.
EmptyCode(i) == task[i].res.code = << >>
Rejected(i) == HasExplode(task[i].res.code)
TimedOut(i) ==
    /\ Executed(i)
    /\ task[i].res.observe = Str(TIMEOUT_OBSERVE)
    /\ does[i].kind = "hang" \/ does[i].slow
RaisedInRun(i) == Executed(i) /\ does[i].kind = "raise"
ReturnedInTime(i) ==
    /\ Executed(i)
    /\ does[i].kind = "return"
    /\ task[i].raw = does[i].value
    /\ task[i].res.observe = Render(does[i].value)

\* C16: a record with flag true is the record of an item whose code was not
\* empty, did not hold the rejected call, was run, and returned a value in
\* time without raising; the record of an item without code, rejected,
\* timed out, terminated or failed never has flag true.
C16_PassMeansRanAndReturned ==
    \A i \in Items :
       Recorded(i) =>
          /\ task[i].res.flag =>
                /\ ~ EmptyCode(i)
                /\ ~ Rejected(i)
                /\ task[i].runs = 1
                /\ ReturnedInTime(i)
          /\ (EmptyCode(i) \/ Rejected(i) \/ TimedOut(i) \/ RaisedInRun(i)) =>
                ~ task[i].res.flag

\* One record passed, of code that ran and returned, and another did not,
\* of code that raised an exception taken by the last handler.
C16_Witness ==
    \E i, j \in Items :
       /\ Recorded(i) /\ task[i].res.flag /\ ReturnedInTime(i)
       /\ Recorded(j) /\ ~ task[j].res.flag /\ RaisedInRun(j)
       /\ does[j].exc.cls = "ValueError"

\* C17: the observation of every record is a text, also when the deadline
\* passed after tool.run gave back a value that is no text and before it
\* was rendered; so the search of the classifier never fails on it.
C17_ObservationIsText ==
    \A i \in Items :
       Recorded(i) =>
          /\ task[i].res.observe.type = "str"
          /\ ~ SearchCall(task[i].res.observe).raised
          /\ (task[i].raw.type /= "NoneType" /\ task[i].res.observe /= Render(task[i].raw))
                => task[i].res.observe = Str(TIMEOUT_OBSERVE)

\* tool.run gave back a frame, the deadline passed before it was rendered,
\* and the record holds the timeout message.
C17_Witness ==
    \E i \in Items :
       /\ Recorded(i)
       /\ task[i].raw = SMALL_FRAME
       /\ task[i].res.observe = Str(TIMEOUT_OBSERVE)
       /\ ~ task[i].res.flag

\* The counts of lines 173-177 have been taken.
Summarized == total_len >= 0

\* C18: the results are written only after the rate was computed, the
\* counts are taken only after the call of every item has returned its
\* record, and for a dataset without items the division raises and nothing
\* is written.
C18_SaveAfterSummaryAfterItems ==
    /\ saved.written =>
          /\ phase = "done"
          /\ Summarized
          /\ pass_rate >= 0
          /\ total_len > 0
          /\ saved.content = eval_answers
    /\ phase \in { "save", "done" } => (Summarized /\ pass_rate >= 0)
    /\ Summarized =>
          /\ total_len = Len(test_datas)
          /\ Len(eval_answers) = Len(test_datas)
          /\ \A i \in Items : task[i].pc = "returned" /\ eval_answers[i] = task[i].res
    /\ Len(test_datas) = 0 =>
          /\ ~ saved.written
          /\ phase \notin { "save", "done" }
          /\ Summarized => (phase = "crashed" /\ crash.cls = "ZeroDivisionError")

\* The run of a dataset without items has died of the division, with the
\* counts taken and nothing written.
C18_Witness ==
    /\ Len(test_datas) = 0
    /\ Summarized
    /\ phase = "crashed"
    /\ crash = Exc("ZeroDivisionError", << >>)
    /\ ~ saved.written
====
